---- MODULE Spec2Model ----
(***************************************************************************)
(* A model of the zerox-client library (src/lib.rs): the constructor       *)
(* ZeroXClient::new, the asynchronous ZeroXClient::get_quote pipeline      *)
(* (header construction, query encoding, HTTP GET, status check, two-phase *)
(* decode) and ToTransactionRequest::to_transaction_request.               *)
(*                                                                         *)
(* Text that the code only passes through (tokens, URLs, source names) is  *)
(* a TLA+ string.  Text that the code parses (API key bytes, hexadecimal   *)
(* fields of a quote) is a sequence: of byte values for the API key, of    *)
(* one-character strings for the quote fields.                             *)
(***************************************************************************)
EXTENDS Integers, Sequences, FiniteSets, TLC

VARIABLES
    args,       \* the arguments ZeroXClient::new was called with
    client,     \* what ZeroXClient::new returned
    calls,      \* one record per get_quote invocation on the client
    params,     \* encoder development: the ZeroXQuoteParams under encoding
    query,      \* encoder development: the map built from params
    quote,      \* builder development: the ZeroXQuoteResponse under conversion
    tx          \* builder development: what to_transaction_request returned

vars == <<args, client, calls, params, query, quote, tx>>

(***************************************************************************)
(* Option<T>                                                               *)
(***************************************************************************)
None == [some |-> FALSE]
Some(v) == [some |-> TRUE, v |-> v]

(***************************************************************************)
(* Bounds of the model.                                                    *)
(***************************************************************************)
\* concurrent get_quote invocations on the one client
NumCalls == 2
\* longest excluded_sources / included_sources list
MaxSources == 2
\* longest text of the value and gas_price fields of a quote
MaxNumLen == 2

Calls == 1..NumCalls

(***************************************************************************)
(* ZeroXClient::new                                                        *)
(***************************************************************************)
\* lines 44-55: the table collected into base_url_hashmap
base_url_hashmap ==
    (1 :> "https://api.0x.org") @@
    (42161 :> "https://arbitrum.api.0x.org") @@
    (43114 :> "https://avalanche.api.0x.org") @@
    (250 :> "https://fantom.api.0x.org") @@
    (137 :> "https://polygon.api.0x.org") @@
    (42220 :> "https://celo.api.0x.org") @@
    (56 :> "https://bsc.api.0x.org") @@
    (10 :> "https://optimisim.api.0x.org")

InvalidChainId(chain_id) == [tag |-> "Err", kind |-> "InvalidChainId", chain_id |-> chain_id]

\* A constructor that falls back to the mainnet endpoint on a lookup miss.
ZeroXClientNewDefaulting(chain_id, api_key) ==
    [tag |-> "Ok",
     base_url |-> IF chain_id \in DOMAIN base_url_hashmap
                  THEN base_url_hashmap[chain_id] ELSE base_url_hashmap[1],
     api_key |-> api_key]

\* lines 43-63: the lookup, `?` on a miss, the client otherwise; api_key is
\* stored as given.
ZeroXClientNew(chain_id, api_key) ==
    IF chain_id \in DOMAIN base_url_hashmap
    THEN [tag |-> "Ok", base_url |-> base_url_hashmap[chain_id], api_key |-> api_key]
    ELSE InvalidChainId(chain_id)

\* The network identifiers a caller passes: the eight of the table and
\* identifiers outside it (2 is the one test_init_invalid_chain_id uses).
ChainIds == DOMAIN base_url_hashmap \cup {0, 2, 5}

\* API keys as byte sequences: "test", the empty key, a key with a tab, a key
\* ending in a line feed, a key holding DEL.
ApiKeys == { <<116, 101, 115, 116>>, <<>>, <<107, 9, 118>>, <<107, 10>>, <<127>> }

(***************************************************************************)
(* HeaderValue::from_str, as get_quote uses it on the API key              *)
(***************************************************************************)
\* A header value that lets every byte through.
HeaderValueUnchecked(bytes) == TRUE

\* line 74: from_str is Ok exactly when every byte is at least 32 and not
\* 127 (DEL), or is a horizontal tab; the unwrap() panics on Err.
HeaderValueFromStrOk(bytes) ==
    \A k \in 1..Len(bytes) : (bytes[k] >= 32 /\ bytes[k] # 127) \/ bytes[k] = 9

(***************************************************************************)
(* The parameter encoder (get_quote, lines 78-109)                         *)
(***************************************************************************)
RECURSIVE JoinFrom(_, _, _)
\* slice::join: the elements from position k on, each preceded by sep
JoinFrom(v, sep, k) ==
    IF k > Len(v) THEN "" ELSE sep \o v[k] \o JoinFrom(v, sep, k + 1)

\* lines 100, 104: v.join(sep)
Join(v, sep) ==
    IF Len(v) = 0 THEN "" ELSE v[1] \o JoinFrom(v, sep, 2)

\* HashMap::insert
Insert(map, k, v) == [x \in DOMAIN map \cup {k} |-> IF x = k THEN v ELSE map[x]]

\* `if let Some(x) = field { map.insert(key, x) }`
InsertIfSome(map, k, opt) == IF opt.some THEN Insert(map, k, opt.v) ELSE map

\* the same for a list-valued field, joined with a comma
InsertJoinedIfSome(map, k, opt) ==
    IF opt.some THEN Insert(map, k, Join(opt.v, ",")) ELSE map

\* An encoder that emits every optional key, with an empty value when unset.
EncodeEmittingEmpty(p) ==
    LET opt(o) == IF o.some THEN o.v ELSE ""
    IN  [sellToken |-> p.sell_token, buyToken |-> p.buy_token,
         sellAmount |-> p.sell_amount,
         takerAddress |-> opt(p.taker_address),
         feeRecipient |-> opt(p.fee_recipient),
         buyTokenPercentageFee |-> opt(p.buy_token_percentage_fee),
         slippagePercentage |-> opt(p.slippage_percentage),
         excludedSources |-> IF p.excluded_sources.some
                             THEN Join(p.excluded_sources.v, ",") ELSE "",
         includedSources |-> IF p.included_sources.some
                             THEN Join(p.included_sources.v, ",") ELSE "",
         skipValidation |-> opt(p.skip_validation)]

\* lines 78-109: the query map of a ZeroXQuoteParams
Encode(p) ==
    LET m0 == [sellToken |-> p.sell_token, buyToken |-> p.buy_token,
               sellAmount |-> p.sell_amount]
        m1 == InsertIfSome(m0, "takerAddress", p.taker_address)
        m2 == InsertIfSome(m1, "feeRecipient", p.fee_recipient)
        m3 == InsertIfSome(m2, "buyTokenPercentageFee", p.buy_token_percentage_fee)
        m4 == InsertIfSome(m3, "slippagePercentage", p.slippage_percentage)
        m5 == InsertJoinedIfSome(m4, "excludedSources", p.excluded_sources)
        m6 == InsertJoinedIfSome(m5, "includedSources", p.included_sources)
    IN  InsertIfSome(m6, "skipValidation", p.skip_validation)

(***************************************************************************)
(* serde_json::Value and the derived Deserialize of the response types     *)
(***************************************************************************)
Ok(v) == [ok |-> TRUE, v |-> v]
Fail == [ok |-> FALSE]

JNull == [t |-> "null"]
JStr(s) == [t |-> "str", s |-> s]
JInt(n) == [t |-> "int", n |-> n]
JFloat == [t |-> "float"]
JArr(a) == [t |-> "arr", a |-> a]
JObj(o) == [t |-> "obj", o |-> o]

\* one field of a response struct: its Rust name, its JSON key (camelCase,
\* or the explicit rename) and the T of its Option<T>
F(name, key, ty) == [name |-> name, key |-> key, ty |-> ty]

\* lines 133-204: the fields of each response struct, in declaration order
Fields(ty) ==
    CASE ty = "FillData" ->
           << F("token_address_path", "tokenAddressPath", "Vec<String>"),
              F("router", "router", "String") >>
      [] ty = "Order" ->
           << F("maker_token", "makerToken", "String"),
              F("taker_token", "takerToken", "String"),
              F("maker_amount", "makerAmount", "String"),
              F("taker_amount", "takerAmount", "String"),
              F("fill_data", "fillData", "FillData"),
              F("source", "source", "String"),
              F("source_path_id", "sourcePathId", "String"),
              F("type_", "type", "i32") >>
      [] ty = "Source" ->
           << F("name", "name", "String"),
              F("proportion", "proportion", "String") >>
      [] ty = "Fees" ->
           << F("zero_ex_fee", "zeroExFee", "ZeroExFee") >>
      [] ty = "ZeroExFee" ->
           << F("billing_type", "billingType", "String"),
              F("fee_amount", "feeAmount", "String"),
              F("fee_token", "feeToken", "String"),
              F("fee_type", "feeType", "String") >>
      [] ty = "ZeroXQuoteResponse" ->
           << F("chain_id", "chainId", "i32"),
              F("price", "price", "String"),
              F("guaranteed_price", "guaranteedPrice", "String"),
              F("estimated_price_impact", "estimatedPriceImpact", "String"),
              F("to", "to", "String"),
              F("data", "data", "String"),
              F("value", "value", "String"),
              F("gas", "gas", "String"),
              F("estimated_gas", "estimatedGas", "String"),
              F("gas_price", "gasPrice", "String"),
              F("protocol_fee", "protocolFee", "String"),
              F("minimum_protocol_fee", "minimumProtocolFee", "String"),
              F("buy_token_address", "buyTokenAddress", "String"),
              F("sell_token_address", "sellTokenAddress", "String"),
              F("buy_amount", "buyAmount", "String"),
              F("sell_amount", "sellAmount", "String"),
              F("sources", "sources", "Vec<Source>"),
              F("orders", "orders", "Vec<Order>"),
              F("allowance_target", "allowanceTarget", "String"),
              F("sell_token_to_eth_rate", "sellTokenToEthRate", "String"),
              F("buy_token_to_eth_rate", "buyTokenToEthRate", "String"),
              F("fees", "fees", "Fees"),
              F("gross_price", "grossPrice", "String"),
              F("gross_buy_amount", "grossBuyAmount", "String"),
              F("gross_sell_amount", "grossSellAmount", "String") >>

StructTypes == {"FillData", "Order", "Source", "Fees", "ZeroExFee", "ZeroXQuoteResponse"}

\* the element type of each Vec the response types use
ElemType(ty) ==
    CASE ty = "Vec<String>" -> "String"
      [] ty = "Vec<Source>" -> "Source"
      [] ty = "Vec<Order>" -> "Order"

RECURSIVE Deserialize(_, _)
\* line 127, with the derives of lines 133-204: serde's typed decode of a
\* Value.  A String takes a JSON string, an i32 an integer in range, a Vec an
\* array whose elements all decode.  A struct takes an object (a key that is
\* not a field is ignored, an absent key leaves the Option unset) or an array
\* holding exactly one element per field, in order.  Every field is an
\* Option: null is None, anything else must decode as the field's type.
Deserialize(ty, j) ==
    LET Opt(fty, jv) ==
            IF jv.t = "null" THEN Ok(None)
            ELSE LET r == Deserialize(fty, jv)
                 IN  IF r.ok THEN Ok(Some(r.v)) ELSE Fail
    IN
    CASE ty = "String" -> IF j.t = "str" THEN Ok(j.s) ELSE Fail
      [] ty = "i32" ->
           IF j.t = "int" /\ j.n >= -2147483647 - 1 /\ j.n <= 2147483647
           THEN Ok(j.n) ELSE Fail
      [] ty \in {"Vec<String>", "Vec<Source>", "Vec<Order>"} ->
           IF j.t # "arr" THEN Fail
           ELSE LET rs == [k \in 1..Len(j.a) |-> Deserialize(ElemType(ty), j.a[k])]
                IN  IF \A k \in 1..Len(j.a) : rs[k].ok
                    THEN Ok([k \in 1..Len(j.a) |-> rs[k].v]) ELSE Fail
      [] ty \in StructTypes ->
           LET fs == Fields(ty)
               idx(name) == CHOOSE k \in 1..Len(fs) : fs[k].name = name
               names == {fs[k].name : k \in 1..Len(fs)}
               rs == [k \in 1..Len(fs) |->
                        IF j.t = "obj"
                        THEN IF fs[k].key \in DOMAIN j.o
                             THEN Opt(fs[k].ty, j.o[fs[k].key]) ELSE Ok(None)
                        ELSE Opt(fs[k].ty, j.a[k])]
           IN  IF j.t \notin {"obj", "arr"} THEN Fail
               ELSE IF j.t = "arr" /\ Len(j.a) # Len(fs) THEN Fail
               ELSE IF \A k \in 1..Len(fs) : rs[k].ok
                    THEN Ok([n \in names |-> rs[idx(n)].v]) ELSE Fail

\* line 127: serde_json::from_value::<ZeroXQuoteResponse>
FromValue(j) == Deserialize("ZeroXQuoteResponse", j)

(***************************************************************************)
(* ZeroXClient::get_quote                                                  *)
(***************************************************************************)
\* the errors get_quote returns (lines 27-34)
ZeroXQuoteError(cause) == [tag |-> "Err", kind |-> "ZeroXQuoteError", cause |-> cause]
ZeroXInvalidResponseStatusCode(status) ==
    [tag |-> "Err", kind |-> "ZeroXInvalidResponseStatusCode", status |-> status]
ZeroXInvalidResponse == [tag |-> "Err", kind |-> "ZeroXInvalidResponse"]
QuoteOk(q) == [tag |-> "Ok", quote |-> q]

\* an invocation that has not been made
IdleCall ==
    [pc |-> "idle", params |-> None, request |-> None, nreq |-> 0,
     resp |-> None, body_taken |-> FALSE, result |-> None]

\* lines 69-111: the request of one invocation
BuildRequest(c, p) ==
    [url |-> c.base_url \o "/swap/v1/quote",
     headers |-> << <<"0x-api-key", c.api_key>>,
                    <<"Content-Type", "application/json">> >>,
     query |-> Encode(p)]

\* The values a caller passes as ZeroXQuoteParams to get_quote.
QuoteParams ==
    LET base == [sell_token |-> "ETH", buy_token |-> "DAI", sell_amount |-> "1000",
                 fee_recipient |-> None, buy_token_percentage_fee |-> None,
                 taker_address |-> None, slippage_percentage |-> None,
                 excluded_sources |-> None, included_sources |-> None,
                 skip_validation |-> None]
    IN  { base,
          [base EXCEPT !.taker_address = Some("0xd8dA"),
                       !.excluded_sources = Some(<<"Uniswap", "Kyber">>)] }

\* The HTTP status codes the server answers with.
Statuses == {200, 201, 400}

\* The bodies the server answers with: a stream that breaks while it is
\* read, bytes that are not JSON, and JSON documents: a full quote (with a
\* key the struct does not know), the empty object, an object whose orders
\* is not an array, and an object whose chainId is not an integer.
JsonBodies ==
    { JObj([chainId |-> JInt(1), to |-> JStr("0x01"), data |-> JStr("0x"),
            value |-> JStr("10"), gasPrice |-> JStr("20"), gas |-> JNull,
            sources |-> JArr(<< JObj([name |-> JStr("Uniswap_V3"),
                                      proportion |-> JStr("1")]) >>),
            orders |-> JArr(<< JObj([type |-> JInt(0),
                                     source |-> JStr("Uniswap_V3"),
                                     fillData |-> JObj([router |-> JStr("0xe5"),
                                         tokenAddressPath |->
                                             JArr(<<JStr("0xee"), JStr("0x6b")>>)])]) >>),
            fees |-> JObj([zeroExFee |-> JNull]),
            decodedUniqueId |-> JFloat]),
      JObj(<<>>),
      JObj([orders |-> JStr("none")]),
      JObj([chainId |-> JFloat]) }

Bodies ==
    { [kind |-> "io_error"], [kind |-> "text"] }
        \cup { [kind |-> "json", value |-> j] : j \in JsonBodies }

\* A status check that takes every 2xx code for a success.
StatusIsSuccess(status) == status >= 200 /\ status < 300

\* line 117: the one status that lets the call go on
StatusIs200(status) == status = 200

\* lines 123-129: resp.json::<Value>() fails with a reqwest::Error, which `?`
\* turns into ZeroXQuoteError (line 28), when the body cannot be read or is
\* not JSON; from_value fails with a serde_json::Error, which `?` turns into
\* ZeroXInvalidResponse (line 34).
DecodeBody(body) ==
    CASE body.kind = "io_error" -> ZeroXQuoteError("body")
      [] body.kind = "text" -> ZeroXQuoteError("decode")
      [] body.kind = "json" ->
           LET r == FromValue(body.value)
           IN  IF r.ok THEN QuoteOk(r.v) ELSE ZeroXInvalidResponse

\* ZeroXClient::new(chain_id, api_key)
New(chain_id, api_key) ==
    /\ client.tag = "Unbuilt"
    /\ args' = Some([chain_id |-> chain_id, api_key |-> api_key])
    /\ client' = ZeroXClientNew(chain_id, api_key)
    /\ UNCHANGED <<calls, params, query, quote, tx>>

\* lines 65-113, up to the first await: the unwrap() of line 74 panics on an
\* API key that is no header value; otherwise the request is built and
\* send() is called.
GetQuoteStart(i, p) ==
    /\ client.tag = "Ok"
    /\ calls[i].pc = "idle"
    /\ calls' = [calls EXCEPT ![i] =
                    IF ~HeaderValueFromStrOk(client.api_key)
                    THEN [@ EXCEPT !.pc = "panicked", !.params = Some(p)]
                    ELSE [@ EXCEPT !.pc = "awaiting_response", !.params = Some(p),
                                   !.request = Some(BuildRequest(client, p)),
                                   !.nreq = @ + 1]]
    /\ UNCHANGED <<args, client, params, query, quote, tx>>

\* A send that is tried again after a transport failure.
SendFailsRetrying(i) ==
    /\ calls[i].pc = "awaiting_response"
    /\ calls' = [calls EXCEPT ![i] =
                    IF @.nreq < 2
                    THEN [@ EXCEPT !.nreq = @ + 1]
                    ELSE [@ EXCEPT !.pc = "done",
                                   !.result = Some(ZeroXQuoteError("send"))]]
    /\ UNCHANGED <<args, client, params, query, quote, tx>>

\* line 113: send().await fails (DNS, connection, timeout) and `?` returns
SendFails(i) ==
    /\ calls[i].pc = "awaiting_response"
    /\ calls' = [calls EXCEPT ![i] =
                    [@ EXCEPT !.pc = "done", !.result = Some(ZeroXQuoteError("send"))]]
    /\ UNCHANGED <<args, client, params, query, quote, tx>>

\* A response handler that keeps the response in the first invocation's slot.
SendCompletesShared(i, status, body) ==
    /\ calls[i].pc = "awaiting_response"
    /\ LET r == [status |-> status, body |-> body]
           c1 == [calls EXCEPT ![1].resp = Some(r)]
       IN  calls' = [c1 EXCEPT ![i] =
                       IF ~StatusIs200(c1[1].resp.v.status)
                       THEN [@ EXCEPT !.pc = "done",
                               !.result = Some(ZeroXInvalidResponseStatusCode(
                                                   c1[1].resp.v.status))]
                       ELSE [@ EXCEPT !.pc = "awaiting_body"]]
    /\ UNCHANGED <<args, client, params, query, quote, tx>>

\* lines 113-121: send().await yields the response; any status but 200
\* returns ZeroXInvalidResponseStatusCode, and 200 goes on to read the body.
SendCompletes(i, status, body) ==
    /\ calls[i].pc = "awaiting_response"
    /\ calls' = [calls EXCEPT ![i] =
                    IF ~StatusIs200(status)
                    THEN [@ EXCEPT !.pc = "done",
                                   !.resp = Some([status |-> status, body |-> body]),
                                   !.result = Some(ZeroXInvalidResponseStatusCode(status))]
                    ELSE [@ EXCEPT !.pc = "awaiting_body",
                                   !.resp = Some([status |-> status, body |-> body])]]
    /\ UNCHANGED <<args, client, params, query, quote, tx>>

\* lines 123-129: resp.json().await consumes the body, then from_value
ReadBody(i) ==
    /\ calls[i].pc = "awaiting_body"
    /\ calls' = [calls EXCEPT ![i] =
                    [@ EXCEPT !.pc = "done", !.body_taken = TRUE,
                              !.result = Some(DecodeBody(calls[i].resp.v.body))]]
    /\ UNCHANGED <<args, client, params, query, quote, tx>>

(***************************************************************************)
(* The FromStr implementations to_transaction_request parses with          *)
(***************************************************************************)
\* bytes of an Address (H160)
AddressBytes == 20
\* most hexadecimal digits of a U256
U256HexDigits == 64

HexChars == <<"0", "1", "2", "3", "4", "5", "6", "7", "8", "9",
              "a", "b", "c", "d", "e", "f">>
UpperHexChars == <<"A", "B", "C", "D", "E", "F">>

IsHexChar(c) ==
    \/ \E k \in 1..Len(HexChars) : HexChars[k] = c
    \/ \E k \in 1..Len(UpperHexChars) : UpperHexChars[k] = c

\* the value of one hexadecimal digit
HexVal(c) ==
    IF \E k \in 1..Len(HexChars) : HexChars[k] = c
    THEN (CHOOSE k \in 1..Len(HexChars) : HexChars[k] = c) - 1
    ELSE (CHOOSE k \in 1..Len(UpperHexChars) : UpperHexChars[k] = c) + 9

\* str::strip_prefix("0x").unwrap_or(s)
Strip0x(s) ==
    IF Len(s) >= 2 /\ s[1] = "0" /\ s[2] = "x" THEN SubSeq(s, 3, Len(s)) ELSE s

RECURSIVE RadixValue(_, _, _)
\* the number the first k characters of s denote in the given radix
RadixValue(s, k, radix) ==
    IF k = 0 THEN 0 ELSE radix * RadixValue(s, k - 1, radix) + HexVal(s[k])

\* the bytes a string of an even number of hexadecimal digits denotes
HexBytes(s) == [k \in 1..(Len(s) \div 2) |-> 16 * HexVal(s[2 * k - 1]) + HexVal(s[2 * k])]

\* lines 233, 239: parse::<U256>() is U256's FromStr, which reads its text
\* as hexadecimal: an optional 0x prefix, then at most 64 hexadecimal digits
\* (an odd count is padded with a leading zero).  64 digits always fit the
\* 256 bits, so the value is never reduced.
U256FromStr(s) ==
    LET v == Strip0x(s)
    IN  IF Len(v) > U256HexDigits THEN Fail
        ELSE IF \E k \in 1..Len(v) : ~IsHexChar(v[k]) THEN Fail
        ELSE Ok(RadixValue(v, Len(v), 16))

\* line 221: parse::<Address>(): an optional 0x prefix, then exactly 40
\* hexadecimal digits
AddressFromStr(s) ==
    LET v == Strip0x(s)
    IN  IF \E k \in 1..Len(v) : ~IsHexChar(v[k]) THEN Fail
        ELSE IF Len(v) # 2 * AddressBytes THEN Fail
        ELSE Ok(HexBytes(v))

\* line 227: parse::<Bytes>(): an optional 0x prefix, then an even number of
\* hexadecimal digits
BytesFromStr(s) ==
    LET v == Strip0x(s)
    IN  IF \E k \in 1..Len(v) : ~IsHexChar(v[k]) THEN Fail
        ELSE IF Len(v) % 2 # 0 THEN Fail
        ELSE Ok(HexBytes(v))

(***************************************************************************)
(* ToTransactionRequest::to_transaction_request                            *)
(***************************************************************************)
\* ok_or(msg)?: the message boxed as the error
MissingField(msg) == [tag |-> "Err", kind |-> "missing", msg |-> msg]
\* parse::<T>()?: the parse error of the field boxed as the error
ParseError(field) == [tag |-> "Err", kind |-> "parse", field |-> field]

\* lines 241-250
TransactionRequest(to, data, value, gas_price) ==
    [tag |-> "Ok", from |-> None, to |-> Some(to), gas_price |-> Some(gas_price),
     gas |-> None, value |-> Some(value), data |-> Some(data), nonce |-> None,
     chain_id |-> None]

\* A builder that requires the four fields before it parses any of them.
to_transaction_request_presence_first(q) ==
    IF ~q.to.some THEN MissingField("Missing 'to' field")
    ELSE IF ~q.data.some THEN MissingField("Missing 'data' field")
    ELSE IF ~q.value.some THEN MissingField("Missing 'value' field")
    ELSE IF ~q.gas_price.some THEN MissingField("Missing 'gas_price' field")
    ELSE LET to == AddressFromStr(q.to.v)
             data == BytesFromStr(q.data.v)
             value == U256FromStr(q.value.v)
             gas_price == U256FromStr(q.gas_price.v)
         IN  IF ~to.ok THEN ParseError("to")
             ELSE IF ~data.ok THEN ParseError("data")
             ELSE IF ~value.ok THEN ParseError("value")
             ELSE IF ~gas_price.ok THEN ParseError("gas_price")
             ELSE TransactionRequest(to.v, data.v, value.v, gas_price.v)

\* lines 216-251: each field in turn is required, then parsed, before the
\* next field is looked at
to_transaction_request(q) ==
    IF ~q.to.some THEN MissingField("Missing 'to' field")
    ELSE LET to == AddressFromStr(q.to.v) IN
    IF ~to.ok THEN ParseError("to")
    ELSE IF ~q.data.some THEN MissingField("Missing 'data' field")
    ELSE LET data == BytesFromStr(q.data.v) IN
    IF ~data.ok THEN ParseError("data")
    ELSE IF ~q.value.some THEN MissingField("Missing 'value' field")
    ELSE LET value == U256FromStr(q.value.v) IN
    IF ~value.ok THEN ParseError("value")
    ELSE IF ~q.gas_price.some THEN MissingField("Missing 'gas_price' field")
    ELSE LET gas_price == U256FromStr(q.gas_price.v) IN
    IF ~gas_price.ok THEN ParseError("gas_price")
    ELSE TransactionRequest(to.v, data.v, value.v, gas_price.v)

(***************************************************************************)
(* The inputs of the encoder and of the builder                            *)
(***************************************************************************)
\* the sequences over S of length at most n
SeqsUpTo(S, n) == UNION { [1..k -> S] : k \in 0..n }

OptionOf(S) == {None} \cup { Some(x) : x \in S }

\* The ZeroXQuoteParams a caller builds: the required fields (sell_amount is
\* not checked to be a number), every optional field unset or set, and the
\* two source lists unset or any list of at most MaxSources names.
ParamsSpace ==
    [sell_token : {"ETH"}, buy_token : {"DAI"}, sell_amount : {"1000", "lots"},
     fee_recipient : OptionOf({"0xd8dA"}),
     buy_token_percentage_fee : OptionOf({"0.1"}),
     taker_address : OptionOf({"0xd8dA", ""}),
     slippage_percentage : OptionOf({"0.1"}),
     excluded_sources : OptionOf(SeqsUpTo({"Uniswap", "Kyber"}, MaxSources)),
     included_sources : OptionOf(SeqsUpTo({"Uniswap", "Kyber"}, MaxSources)),
     skip_validation : OptionOf({"true"})]

\* 0x0000000000000000000000000000000000000001
AddressOne == <<"0", "x">> \o [k \in 1..(2 * AddressBytes - 1) |-> "0"] \o <<"1">>

\* The four fields of a ZeroXQuoteResponse that to_transaction_request
\* reads: each unset or set; to a 20-byte address or a short one; data empty,
\* two bytes or not hexadecimal; value and gas_price any text of at most
\* MaxNumLen characters among 0, 1, a and x.
QuoteSpace ==
    [to : OptionOf({AddressOne, <<"0", "x", "0", "1">>}),
     data : OptionOf({<<"0", "x">>, <<"0", "x", "a", "b", "c", "d">>, <<"0", "x", "g">>}),
     value : OptionOf(SeqsUpTo({"0", "1", "a", "x"}, MaxNumLen)),
     gas_price : OptionOf(SeqsUpTo({"0", "1", "a", "x"}, MaxNumLen))]

(***************************************************************************)
(* One caller: the client is constructed, then get_quote is awaited on it, *)
(* one invocation after the other                                          *)
(***************************************************************************)
Unbuilt == [tag |-> "Unbuilt"]

Init ==
    /\ args = None
    /\ client = Unbuilt
    /\ calls = [i \in Calls |-> IdleCall]
    /\ params = None
    /\ query = None
    /\ quote = None
    /\ tx = None

\* the caller is done with what invocation i returned (or with its panic)
\* and goes on to its next get_quote
Forget(i) ==
    /\ calls[i].pc \in {"done", "panicked"}
    /\ calls' = [calls EXCEPT ![i] = IdleCall]
    /\ UNCHANGED <<args, client, params, query, quote, tx>>

Next ==
    \/ \E chain_id \in ChainIds, api_key \in ApiKeys : New(chain_id, api_key)
    \/ \E p \in QuoteParams : GetQuoteStart(1, p)
    \/ SendFails(1)
    \/ \E status \in Statuses, body \in Bodies : SendCompletes(1, status, body)
    \/ ReadBody(1)
    \/ Forget(1)

Spec == Init /\ [][Next]_vars

(***************************************************************************)
(* Concurrent callers: NumCalls invocations of get_quote on one shared     *)
(* client, their steps interleaved in any order                            *)
(***************************************************************************)
\* The client that is shared: mainnet, with the key "test" (test_init).
SharedArgs == { [chain_id |-> 1, api_key |-> <<116, 101, 115, 116>>] }

InitShared ==
    /\ args \in { Some(a) : a \in SharedArgs }
    /\ client = ZeroXClientNew(args.v.chain_id, args.v.api_key)
    /\ calls = [i \in Calls |-> IdleCall]
    /\ params = None
    /\ query = None
    /\ quote = None
    /\ tx = None

NextShared ==
    \/ \E i \in Calls, p \in QuoteParams : GetQuoteStart(i, p)
    \/ \E i \in Calls : SendFails(i)
    \/ \E i \in Calls, status \in Statuses, body \in Bodies : SendCompletes(i, status, body)
    \/ \E i \in Calls : ReadBody(i)

SpecShared == InitShared /\ [][NextShared]_vars

(***************************************************************************)
(* The encoder on its own: every ZeroXQuoteParams, encoded once            *)
(***************************************************************************)
InitEncode ==
    /\ args = None
    /\ client = Unbuilt
    /\ calls = [i \in Calls |-> IdleCall]
    /\ params \in { Some(p) : p \in ParamsSpace }
    /\ query = None
    /\ quote = None
    /\ tx = None

\* lines 78-109 applied to params
EncodeParams ==
    /\ params.some
    /\ ~query.some
    /\ query' = Some(Encode(params.v))
    /\ UNCHANGED <<args, client, calls, params, quote, tx>>

NextEncode == EncodeParams

SpecEncode == InitEncode /\ [][NextEncode]_vars

(***************************************************************************)
(* The builder on its own: every quote of QuoteSpace, converted once       *)
(***************************************************************************)
InitTx ==
    /\ args = None
    /\ client = Unbuilt
    /\ calls = [i \in Calls |-> IdleCall]
    /\ params = None
    /\ query = None
    /\ quote \in { Some(q) : q \in QuoteSpace }
    /\ tx = None

\* quote.to_transaction_request()
ToTransactionRequest ==
    /\ quote.some
    /\ ~tx.some
    /\ tx' = Some(to_transaction_request(quote.v))
    /\ UNCHANGED <<args, client, calls, params, query, quote>>

NextTx == ToTransactionRequest

SpecTx == InitTx /\ [][NextTx]_vars

(***************************************************************************)
(* Properties of get_quote                                                 *)
(***************************************************************************)
\* a body that one of the two decode phases fails on: phase 1 on bytes that
\* are not JSON, phase 2 on a JSON value that is no ZeroXQuoteResponse
BodyUndecodable(body) ==
    \/ body.kind = "text"
    \/ body.kind = "json" /\ ~Deserialize("ZeroXQuoteResponse", body.value).ok

\* C1: a response whose status is not 200 ends the invocation with
\* ZeroXInvalidResponseStatusCode carrying that status, whatever the body,
\* and the body is never read on that path.
C1_Non200IsStatusError ==
    \A i \in Calls :
        (calls[i].resp.some /\ calls[i].resp.v.status # 200) =>
            /\ calls[i].pc = "done"
            /\ calls[i].result =
                   Some([tag |-> "Err", kind |-> "ZeroXInvalidResponseStatusCode",
                         status |-> calls[i].resp.v.status])
            /\ ~calls[i].body_taken

C1_Witness ==
    \E i \in Calls :
        /\ calls[i].pc = "done"
        /\ calls[i].resp.some
        /\ calls[i].resp.v.status = 201
        /\ calls[i].resp.v.body.kind = "json"
        /\ ~BodyUndecodable(calls[i].resp.v.body)
        /\ calls[i].result.v.kind = "ZeroXInvalidResponseStatusCode"

\* C2: on status 200 a failure of either decode phase (body to JSON value,
\* JSON value to ZeroXQuoteResponse) returns ZeroXInvalidResponse.
C2_DecodeFailureIsInvalidResponse ==
    \A i \in Calls :
        (/\ calls[i].pc = "done"
         /\ calls[i].resp.some
         /\ calls[i].resp.v.status = 200
         /\ BodyUndecodable(calls[i].resp.v.body)) =>
            calls[i].result = Some([tag |-> "Err", kind |-> "ZeroXInvalidResponse"])

\* what C8 says of every state: send() was called at most once; a failed
\* step was the last step (a transport failure leaves no response, a status
\* failure leaves the body unread); a returned quote means no step failed
C8_StateOk ==
    \A i \in Calls :
        /\ calls[i].nreq <= 1
        /\ calls[i].result.some => calls[i].pc = "done"
        /\ (calls[i].pc = "done" /\ ~calls[i].resp.some) =>
               /\ calls[i].result.v = [tag |-> "Err", kind |-> "ZeroXQuoteError",
                                       cause |-> "send"]
               /\ ~calls[i].body_taken
        /\ (calls[i].pc = "done" /\ calls[i].resp.some /\ calls[i].resp.v.status # 200) =>
               /\ calls[i].result.v.tag = "Err"
               /\ ~calls[i].body_taken
        /\ (calls[i].result.some /\ calls[i].result.v.tag = "Ok") =>
               /\ calls[i].resp.some
               /\ calls[i].resp.v.status = 200
               /\ calls[i].body_taken
               /\ ~BodyUndecodable(calls[i].resp.v.body)
               /\ calls[i].resp.v.body.kind = "json"
        /\ (calls[i].pc = "done" /\ calls[i].resp.some /\ calls[i].resp.v.status = 200
                /\ calls[i].resp.v.body.kind # "json") =>
               calls[i].result.v.tag = "Err"

\* what C8 says of every step: a returned invocation stays as it is, and
\* the count of send() calls never goes down
C8_StepOk ==
    \A i \in Calls :
        /\ calls[i].pc = "done" => calls'[i] = calls[i]
        /\ calls'[i].nreq >= calls[i].nreq

\* C8: an invocation issues at most one HTTP GET and never retries; once a
\* step fails (transport, status check, decode) no later step runs and the
\* invocation returns that step's error, not a quote; and an invocation that
\* has returned never moves again.
C8_SingleAttempt == [](C8_StateOk) /\ [][C8_StepOk]_vars

C8_Witness ==
    \E i, j \in Calls :
        /\ i # j
        /\ calls[i].pc = "done"
        /\ calls[i].nreq = 1
        /\ ~calls[i].resp.some
        /\ calls[i].result.v.tag = "Err"
        /\ calls[j].pc = "done"
        /\ calls[j].result.v.tag = "Ok"

\* what an invocation returns when it runs alone on client c with params p
\* and the network answers its request with r (None: the transport fails)
OutcomeAlone(c, p, r) ==
    IF ~r.some THEN [tag |-> "Err", kind |-> "ZeroXQuoteError", cause |-> "send"]
    ELSE IF r.v.status # 200
         THEN [tag |-> "Err", kind |-> "ZeroXInvalidResponseStatusCode",
               status |-> r.v.status]
         ELSE DecodeBody(r.v.body)

\* what C9 says of every state
C9_StateOk ==
    \A i \in Calls :
        /\ calls[i].request.some =>
               calls[i].request.v =
                   [url |-> client.base_url \o "/swap/v1/quote",
                    headers |-> << <<"0x-api-key", client.api_key>>,
                                   <<"Content-Type", "application/json">> >>,
                    query |-> Encode(calls[i].params.v)]
        /\ calls[i].pc = "done" =>
               calls[i].result = Some(OutcomeAlone(client, calls[i].params.v, calls[i].resp))
        /\ calls[i].pc = "awaiting_response" => ~calls[i].resp.some
        /\ calls[i].pc = "awaiting_body" => calls[i].resp.some

\* what C9 says of every step
C9_StepOk ==
    /\ client' = client
    /\ \A i \in Calls :
           /\ calls[i].params.some => calls'[i].params = calls[i].params
           /\ calls[i].resp.some => calls'[i].resp = calls[i].resp

\* C9: with any number of invocations interleaved on one client, the
\* client's base URL and API key never change, every request is built from
\* the client and the invocation's own params, and every invocation returns
\* what it would return alone, given its own params and its own response.
C9_Independent == [](C9_StateOk) /\ [][C9_StepOk]_vars

C9_Witness ==
    \E i, j \in Calls :
        /\ i # j
        /\ calls[i].pc = "done"
        /\ calls[j].pc = "done"
        /\ calls[i].params # calls[j].params
        /\ calls[i].resp.some /\ calls[j].resp.some
        /\ calls[i].resp.v.status = 200 /\ calls[j].resp.v.status = 200
        /\ calls[i].result.v.tag = "Ok"
        /\ calls[j].result.v.tag = "Err"

(***************************************************************************)
(* Properties of ZeroXClient::new                                          *)
(***************************************************************************)
\* the endpoint table as documented: network identifier to base URL
DocumentedBaseUrl ==
    (1 :> "https://api.0x.org") @@
    (42161 :> "https://arbitrum.api.0x.org") @@
    (43114 :> "https://avalanche.api.0x.org") @@
    (250 :> "https://fantom.api.0x.org") @@
    (137 :> "https://polygon.api.0x.org") @@
    (42220 :> "https://celo.api.0x.org") @@
    (56 :> "https://bsc.api.0x.org") @@
    (10 :> "https://optimism.api.0x.org")

SupportedChainIds == {1, 42161, 43114, 250, 137, 42220, 56, 10}

\* C4: for each of the eight supported identifiers the client's base URL is
\* the documented one, and every get_quote on the client requests that URL's
\* /swap/v1/quote.
C4_DocumentedEndpoint ==
    (args.some /\ args.v.chain_id \in SupportedChainIds) =>
        /\ client.tag = "Ok"
        /\ client.base_url = DocumentedBaseUrl[args.v.chain_id]
        /\ \A i \in Calls :
               calls[i].request.some =>
                   calls[i].request.v.url =
                       DocumentedBaseUrl[args.v.chain_id] \o "/swap/v1/quote"

\* C5: for an identifier outside the eight, new returns InvalidChainId with
\* that identifier, there is no client, and no get_quote is ever started.
C5_UnknownChainIdRejected ==
    (args.some /\ args.v.chain_id \notin SupportedChainIds) =>
        /\ client = [tag |-> "Err", kind |-> "InvalidChainId",
                     chain_id |-> args.v.chain_id]
        /\ \A i \in Calls : calls[i].pc = "idle" /\ calls[i].nreq = 0

C5_Witness ==
    /\ args.some
    /\ args.v.chain_id = 2
    /\ client.tag = "Err"
    /\ client.chain_id = 2

\* an HTTP header value: horizontal tab, space, visible ASCII, or obs-text
IsHeaderValue(bytes) ==
    \A k \in 1..Len(bytes) :
        bytes[k] = 9 \/ (bytes[k] >= 32 /\ bytes[k] <= 126) \/ bytes[k] >= 128

\* C10: new stores any API key unvalidated; on a client whose key is no
\* header value get_quote panics before send() is called and returns
\* nothing; on a client whose key is a header value get_quote never panics
\* and what it returns is a quote or one of the four error variants.
C10_ApiKeyPanic ==
    (client.tag = "Ok") =>
        /\ client.api_key = args.v.api_key
        /\ \A i \in Calls :
               IF ~IsHeaderValue(client.api_key)
               THEN /\ calls[i].pc \in {"idle", "panicked"}
                    /\ calls[i].nreq = 0
                    /\ ~calls[i].request.some
                    /\ ~calls[i].result.some
               ELSE /\ calls[i].pc # "panicked"
                    /\ calls[i].pc = "done" =>
                           /\ calls[i].result.some
                           /\ \/ calls[i].result.v.tag = "Ok"
                              \/ /\ calls[i].result.v.tag = "Err"
                                 /\ calls[i].result.v.kind \in
                                        {"InvalidChainId", "ZeroXQuoteError",
                                         "ZeroXInvalidResponseStatusCode",
                                         "ZeroXInvalidResponse"}

C10_Witness ==
    /\ client.tag = "Ok"
    /\ client.api_key = <<107, 10>>
    /\ \E i \in Calls : calls[i].pc = "panicked" /\ calls[i].nreq = 0

(***************************************************************************)
(* Properties of the parameter encoder                                     *)
(***************************************************************************)
RECURSIVE CommaJoined(_)
\* the elements of v in order, with a comma between neighbours
CommaJoined(v) ==
    IF Len(v) = 0 THEN ""
    ELSE IF Len(v) = 1 THEN v[1]
    ELSE CommaJoined(SubSeq(v, 1, Len(v) - 1)) \o "," \o v[Len(v)]

\* the optional fields that are passed through, with their upstream keys
ScalarKeys ==
    { <<"taker_address", "takerAddress">>,
      <<"fee_recipient", "feeRecipient">>,
      <<"buy_token_percentage_fee", "buyTokenPercentageFee">>,
      <<"slippage_percentage", "slippagePercentage">>,
      <<"skip_validation", "skipValidation">> }

\* the list-valued optional fields, with their upstream keys
ListKeys ==
    { <<"excluded_sources", "excludedSources">>,
      <<"included_sources", "includedSources">> }

\* C6: the encoded query holds sellToken, buyToken and sellAmount with the
\* request's values; the key of an optional field exactly when the field is
\* set, with its value (a list comma-joined in input order, so Uniswap,
\* Kyber gives "Uniswap,Kyber"); and no other key.
C6_EncodedQuery ==
    query.some =>
        LET p == params.v
            q == query.v
        IN  /\ {"sellToken", "buyToken", "sellAmount"} \subseteq DOMAIN q
            /\ q["sellToken"] = p.sell_token
            /\ q["buyToken"] = p.buy_token
            /\ q["sellAmount"] = p.sell_amount
            /\ \A f \in ScalarKeys :
                   /\ f[2] \in DOMAIN q <=> p[f[1]].some
                   /\ p[f[1]].some => q[f[2]] = p[f[1]].v
            /\ \A f \in ListKeys :
                   /\ f[2] \in DOMAIN q <=> p[f[1]].some
                   /\ p[f[1]].some => q[f[2]] = CommaJoined(p[f[1]].v)
            /\ p.excluded_sources = Some(<<"Uniswap", "Kyber">>) =>
                   q["excludedSources"] = "Uniswap,Kyber"
            /\ DOMAIN q \subseteq
                   {"sellToken", "buyToken", "sellAmount"}
                       \cup { f[2] : f \in ScalarKeys \cup ListKeys }
            /\ (\A f \in ScalarKeys \cup ListKeys : ~p[f[1]].some) =>
                   Cardinality(DOMAIN q) = 3

C6_Witness ==
    /\ query.some
    /\ params.v.excluded_sources = Some(<<"Uniswap", "Kyber">>)
    /\ ~params.v.included_sources.some
    /\ params.v.taker_address = Some("")
    /\ query.v["excludedSources"] = "Uniswap,Kyber"
    /\ "includedSources" \notin DOMAIN query.v

(***************************************************************************)
(* Properties of to_transaction_request                                    *)
(***************************************************************************)
\* the four fields in the order they are required
FieldOrder == <<"to", "data", "value", "gas_price">>

\* the names the fields go by in a quote (the JSON keys)
QuoteFieldName == <<"to", "data", "value", "gasPrice">>

\* whether field k of quote q, which is present, parses as its type
FieldParses(q, k) ==
    CASE k = 1 -> AddressFromStr(q.to.v).ok
      [] k = 2 -> BytesFromStr(q.data.v).ok
      [] k = 3 -> U256FromStr(q.value.v).ok
      [] k = 4 -> U256FromStr(q.gas_price.v).ok

\* the first of the four fields that quote q lacks (0: none)
FirstAbsent(q) ==
    IF \E k \in 1..4 : ~q[FieldOrder[k]].some
    THEN CHOOSE k \in 1..4 :
             /\ ~q[FieldOrder[k]].some
             /\ \A j \in 1..(k - 1) : q[FieldOrder[j]].some
    ELSE 0

\* C3 as stated: whenever one of the four fields is absent, the result is
\* the missing-field error naming the first absent one (to, data, value,
\* gasPrice), whether or not the present fields parse.
C3_MissingFieldFirst ==
    (tx.some /\ FirstAbsent(quote.v) # 0) =>
        tx.v = [tag |-> "Err", kind |-> "missing",
                msg |-> "Missing '" \o QuoteFieldName[FirstAbsent(quote.v)] \o "' field"]

\* C3 as the code has it: the fields are required and parsed one after the
\* other, so the missing-field error of the first absent field (named to,
\* data, value, gas_price) is returned when every field before it parses,
\* and otherwise the parse error of the first field before it that does not.
C3_MissingFieldInTurn ==
    (tx.some /\ FirstAbsent(quote.v) # 0) =>
        LET q == quote.v
            k == FirstAbsent(q)
            bad == { j \in 1..(k - 1) : ~FieldParses(q, j) }
        IN  IF bad = {}
            THEN tx.v = [tag |-> "Err", kind |-> "missing",
                         msg |-> "Missing '" \o FieldOrder[k] \o "' field"]
            ELSE tx.v = [tag |-> "Err", kind |-> "parse",
                         field |-> FieldOrder[CHOOSE j \in bad : \A l \in bad : j <= l]]

C3_Witness ==
    /\ tx.some
    /\ quote.v.to.some /\ ~AddressFromStr(quote.v.to.v).ok
    /\ quote.v.data.some
    /\ ~quote.v.value.some
    /\ tx.v.kind = "parse"

\* whether s is the decimal text of a number
IsDecimalText(s) ==
    /\ Len(s) > 0
    /\ \A k \in 1..Len(s) : s[k] \in {"0", "1", "2", "3", "4", "5", "6", "7", "8", "9"}

\* C7: when to and data are well formed and value and gasPrice are decimal
\* texts, the conversion succeeds and the result's value and gas_price are
\* the integers those decimal texts denote.
C7_DecimalAmounts ==
    (/\ tx.some
     /\ FirstAbsent(quote.v) = 0
     /\ AddressFromStr(quote.v.to.v).ok
     /\ BytesFromStr(quote.v.data.v).ok
     /\ IsDecimalText(quote.v.value.v)
     /\ IsDecimalText(quote.v.gas_price.v)) =>
        /\ tx.v.tag = "Ok"
        /\ tx.v.value = Some(RadixValue(quote.v.value.v, Len(quote.v.value.v), 10))
        /\ tx.v.gas_price =
               Some(RadixValue(quote.v.gas_price.v, Len(quote.v.gas_price.v), 10))

====
